---- MODULE Spec2Model ----
(***************************************************************************)
(* Model of src/build.py: get_data (credentials check, the two Airtable    *)
(* fetches, the per-record scan into monthly_data, the calendar-ordered     *)
(* summary) and build_site (reading the summary's keys and rendering).      *)
(*                                                                          *)
(* Numbers are fixed-point with one decimal digit: the model's n stands for *)
(* the Python number n/10, so 126 is 12.6 and a Python int is a multiple of *)
(* ten.  Strings that the code inspects (month labels) are sequences of     *)
(* characters, so that str.startswith is computed and not assumed.          *)
(***************************************************************************)
EXTENDS Integers, Sequences, FiniteSets, TLC

VARIABLES
    airtable_pat,        \* os.environ.get("AIRTABLE_PAT"): "unset", "empty" or "token"
    pc,                  \* position of the program
    err,                 \* the exception that left the program, "none" if none
    production_status,   \* outcome of requests.get(url): "pending", "ok", "http_error", "transport_error"
    development_status,  \* outcome of requests.get(urlDevelopment)
    prodRecords,         \* records of data["records"] scanned so far
    devRecords,          \* records of dataDevelopment["records"] scanned so far
    monthly_data,        \* the dict monthly_data, in insertion order
    currentMonth,        \* datetime.now().month as read at line 135 (0 before)
    summary              \* the mapping get_data returned (NoSummary before)

vars == <<airtable_pat, pc, err, production_status, development_status,
          prodRecords, devRecords, monthly_data, currentMonth, summary>>

\* Total number of records the two responses hold in the model.
MaxRecords == 3

(***************************************************************************)
(* Month labels                                                             *)
(***************************************************************************)
January   == <<"J","a","n","u","a","r","y">>
February  == <<"F","e","b","r","u","a","r","y">>
March     == <<"M","a","r","c","h">>
April     == <<"A","p","r","i","l">>
May       == <<"M","a","y">>
June      == <<"J","u","n","e">>
July      == <<"J","u","l","y">>
August    == <<"A","u","g","u","s","t">>
September == <<"S","e","p","t","e","m","b","e","r">>
October   == <<"O","c","t","o","b","e","r">>
November  == <<"N","o","v","e","m","b","e","r">>
December  == <<"D","e","c","e","m","b","e","r">>
Unknown   == <<"U","n","k","n","o","w","n">>
March2026 == March \o <<" ","2","0","2","6">>

month_order ==
    <<January, February, March, April, May, June,
      July, August, September, October, November, December>>

\* A Python value held under "Month": a str (its characters) or None.
StrLabel(chars) == [kind |-> "str", chars |-> chars]
NoneLabel       == [kind |-> "None", chars |-> <<>>]
\* The key "Month" is not in the record's fields.
AbsentMonth     == [kind |-> "absent", chars |-> <<>>]

\* str.startswith(prefix)
StartsWith(s, prefix) ==
    /\ Len(prefix) <= Len(s)
    /\ SubSeq(s, 1, Len(prefix)) = prefix

(***************************************************************************)
(* Field values and their coercion                                          *)
(***************************************************************************)
\* A JSON value under a numeric field: a number, a string holding an integer
\* literal ("2"), a string holding a decimal literal ("12.6"), a string that
\* is no number, null, or the key is absent.  v is the value in tenths.
Number(v)  == [kind |-> "number", v |-> v]
IntStr(v)  == [kind |-> "intstr", v |-> v]
DecStr(v)  == [kind |-> "decstr", v |-> v]
Text       == [kind |-> "text",   v |-> 0]
Null       == [kind |-> "null",   v |-> 0]
Absent     == [kind |-> "absent", v |-> 0]

\* n as a Python int, in tenths
Whole(n) == 10 * n
IsWhole(t) == t % 10 = 0

\* Get with a default of one instead of the zero the caller passes
GetDefaultOne(x, default) == IF x.kind = "absent" THEN Number(10) ELSE x

\* fields.get(name, default)
Get(x, default) == IF x.kind = "absent" THEN default ELSE x

\* float(x) raises for None and for a string that is no number
FloatRaises(x) == x.kind \in {"text", "null"}
\* int(x) raises also for a string with a decimal point: int("12.6") is a ValueError
IntRaises(x) == x.kind \in {"text", "null", "decstr"}

\* the float added as it is, round() left out
RoundLeftOut(t) == t

\* int() in the place of round(): the fraction is cut off
RoundTowardZero(t) == IF t >= 0 THEN Whole(t \div 10) ELSE 0 - Whole((0 - t) \div 10)

\* round(f) of a float: to the nearest integer, a tie to the even one
RoundHalfEven(t) ==
    LET q == t \div 10
        r == t % 10
    IN  IF r < 5 THEN Whole(q)
        ELSE IF r > 5 THEN Whole(q + 1)
        ELSE IF q % 2 = 0 THEN Whole(q) ELSE Whole(q + 1)

\* int(f) of a number: truncation toward zero
Truncate(t) == IF t >= 0 THEN Whole(t \div 10) ELSE 0 - Whole((0 - t) \div 10)

\* round(float(x)) if x is not None else 0, and 0 when that raises
CoerceLoss(x) ==
    IF x.kind = "null" THEN 0
    ELSE IF FloatRaises(x) THEN 0
    ELSE RoundHalfEven(x.v)

\* int(x) if x is not None else 0, and 0 when that raises
CoerceCount(x) ==
    IF x.kind = "null" THEN 0
    ELSE IF IntRaises(x) THEN 0
    ELSE Truncate(x.v)

(***************************************************************************)
(* Buckets                                                                  *)
(***************************************************************************)
getEmptyDict(month) ==
    [month |-> month,
     production_loss |-> 0,
     sold_components |-> 0,
     development_gates |-> 0,
     development_loss |-> 0,
     currentMonthProductionLoss |-> 0,
     currentMonthSoldComponents |-> 0,
     currentMonthDevelopmentLoss |-> 0,
     currentMonthDevelopmentGates |-> 0,
     lastUpdated |-> "now"]

\* month in monthly_data
HasBucket(md, month) == \E i \in 1..Len(md) : md[i].month = month

\* EnsureBucket without the membership test: an existing bucket is replaced
\* by an empty one
EnsureBucketAlways(md, month) ==
    IF HasBucket(md, month)
    THEN [i \in 1..Len(md) |-> IF md[i].month = month THEN getEmptyDict(month) ELSE md[i]]
    ELSE Append(md, getEmptyDict(month))

\* if month not in monthly_data: monthly_data[month] = getEmptyDict(month)
EnsureBucket(md, month) ==
    IF HasBucket(md, month) THEN md ELSE Append(md, getEmptyDict(month))

\* fields.get("Month", "Unknown")
MonthOf(record) ==
    IF record.Month.kind = "absent" THEN StrLabel(Unknown) ELSE record.Month

\* monthly_data[month]["production_loss"] += ...; ["sold_components"] += ...
AddProduction(md, month, production_loss, sold_components) ==
    LET m == EnsureBucket(md, month)
    IN  [i \in 1..Len(m) |->
            IF m[i].month = month
            THEN [m[i] EXCEPT !.production_loss = @ + production_loss,
                              !.sold_components = @ + sold_components]
            ELSE m[i]]

\* monthly_data[month]["development_loss"] += ...; ["development_gates"] += ...
AddDevelopment(md, month, development_loss, development_gates) ==
    LET m == EnsureBucket(md, month)
    IN  [i \in 1..Len(m) |->
            IF m[i].month = month
            THEN [m[i] EXCEPT !.development_loss = @ + development_loss,
                              !.development_gates = @ + development_gates]
            ELSE m[i]]

(***************************************************************************)
(* The summary                                                              *)
(***************************************************************************)
NoSummary == [none |-> TRUE]

\* the mapping returned when AIRTABLE_PAT is not set
MockData ==
    [monthlyDataList |-> <<>>,
     totalProductionLoss |-> 0,
     totalSoldComponents |-> 0,
     totalDevelopmentLoss |-> 0,
     totalDevelopmentGates |-> 0,
     lastUpdated |-> "now"]

\* the accumulators of lines 99 and 131-139
EmptyTotals ==
    [monthlyDataList |-> <<>>,
     totalProductionLoss |-> 0,
     totalSoldComponents |-> 0,
     totalDevelopmentLoss |-> 0,
     totalDevelopmentGates |-> 0,
     currentMonthProductionLoss |-> 0,
     currentMonthSoldComponents |-> 0,
     currentMonthDevelopmentLoss |-> 0,
     currentMonthDevelopmentGates |-> 0,
     lastUpdated |-> "now"]

\* matching_entries with the label compared for equality: a year-suffixed
\* label matches no month
matching_entries_exact(md, month) ==
    SelectSeq(md, LAMBDA entry : entry.month.chars = month)

\* [entry for key, entry in monthly_data.items() if entry["month"].startswith(month)]
matching_entries(md, month) ==
    SelectSeq(md, LAMBDA entry : StartsWith(entry.month.chars, month))

\* AddEntry with the four grand totals moved under the current-month test
AddEntryTotalsUnderIf(acc, entry, current) ==
    LET isCurrent == StartsWith(entry.month.chars, current)
    IN  [acc EXCEPT
            !.currentMonthProductionLoss =
                IF isCurrent THEN @ + entry.production_loss ELSE @,
            !.currentMonthSoldComponents =
                IF isCurrent THEN @ + entry.sold_components ELSE @,
            !.currentMonthDevelopmentLoss =
                IF isCurrent THEN @ + entry.development_loss ELSE @,
            !.currentMonthDevelopmentGates =
                IF isCurrent THEN @ + entry.development_gates ELSE @,
            !.monthlyDataList = Append(@, entry),
            !.totalProductionLoss = IF isCurrent THEN @ + entry.production_loss ELSE @,
            !.totalSoldComponents = IF isCurrent THEN @ + entry.sold_components ELSE @,
            !.totalDevelopmentLoss = IF isCurrent THEN @ + entry.development_loss ELSE @,
            !.totalDevelopmentGates = IF isCurrent THEN @ + entry.development_gates ELSE @]

\* AddEntry with the current month compared for equality with the label
AddEntryCurrentExact(acc, entry, current) ==
    LET isCurrent == entry.month.chars = current
    IN  [acc EXCEPT
            !.currentMonthProductionLoss =
                IF isCurrent THEN @ + entry.production_loss ELSE @,
            !.currentMonthSoldComponents =
                IF isCurrent THEN @ + entry.sold_components ELSE @,
            !.currentMonthDevelopmentLoss =
                IF isCurrent THEN @ + entry.development_loss ELSE @,
            !.currentMonthDevelopmentGates =
                IF isCurrent THEN @ + entry.development_gates ELSE @,
            !.monthlyDataList = Append(@, entry),
            !.totalProductionLoss = @ + entry.production_loss,
            !.totalSoldComponents = @ + entry.sold_components,
            !.totalDevelopmentLoss = @ + entry.development_loss,
            !.totalDevelopmentGates = @ + entry.development_gates]

\* the body of "for entry in matching_entries", lines 144-155
AddEntry(acc, entry, current) ==
    LET isCurrent == StartsWith(entry.month.chars, current)
    IN  [acc EXCEPT
            !.currentMonthProductionLoss =
                IF isCurrent THEN @ + entry.production_loss ELSE @,
            !.currentMonthSoldComponents =
                IF isCurrent THEN @ + entry.sold_components ELSE @,
            !.currentMonthDevelopmentLoss =
                IF isCurrent THEN @ + entry.development_loss ELSE @,
            !.currentMonthDevelopmentGates =
                IF isCurrent THEN @ + entry.development_gates ELSE @,
            !.monthlyDataList = Append(@, entry),
            !.totalProductionLoss = @ + entry.production_loss,
            !.totalSoldComponents = @ + entry.sold_components,
            !.totalDevelopmentLoss = @ + entry.development_loss,
            !.totalDevelopmentGates = @ + entry.development_gates]

RECURSIVE AddEntries(_, _, _)
AddEntries(acc, entries, current) ==
    IF entries = <<>> THEN acc
    ELSE AddEntries(AddEntry(acc, Head(entries), current), Tail(entries), current)

\* "for month in month_order", from the i-th month on
RECURSIVE ForMonths(_, _, _, _)
ForMonths(i, acc, md, current) ==
    IF i > Len(month_order) THEN acc
    ELSE ForMonths(i + 1,
                   AddEntries(acc, matching_entries(md, month_order[i]), current),
                   md, current)

\* lines 131-174: finalData for the buckets md when datetime.now().month is m
finalData(md, m) == ForMonths(1, EmptyTotals, md, month_order[m])

\* entry["month"].startswith raises AttributeError when the label is no str
StartsWithRaises(md) == \E i \in 1..Len(md) : md[i].month.kind # "str"

\* the keys build_site reads from records, lines 200-209
RenderedKeys ==
    {"monthlyDataList", "totalProductionLoss", "totalSoldComponents",
     "totalDevelopmentLoss", "totalDevelopmentGates",
     "currentMonthProductionLoss", "currentMonthSoldComponents",
     "currentMonthDevelopmentLoss", "currentMonthDevelopmentGates",
     "lastUpdated"}

(***************************************************************************)
(* Inputs                                                                   *)
(***************************************************************************)
MonthValues ==
    {StrLabel(January), StrLabel(March), StrLabel(March2026), NoneLabel, AbsentMonth}

\* The values two numeric fields of one record hold together: each malformed
\* shape of one field beside a well-formed value of the other, and two
\* well-formed pairs.
ValuePairs ==
    {<<Text, Number(50)>>, <<Null, IntStr(20)>>, <<Absent, Number(-17)>>,
     <<DecStr(126), Text>>, <<Number(30), Null>>, <<Number(-15), Absent>>,
     <<DecStr(126), Number(50)>>, <<Number(30), IntStr(20)>>}

\* Every pair of values under the label January, and every other Month with
\* values that are not zero; the year-suffixed label carries the count "2.5".
FieldShapes ==
    {<<StrLabel(January), p[1], p[2]>> : p \in ValuePairs}
    \cup {<<m, DecStr(126), Number(50)>> : m \in MonthValues \ {StrLabel(March2026)}}
    \cup {<<StrLabel(March2026), Number(30), DecStr(25)>>}

ProductionRecords ==
    {[Month |-> s[1], ProductionLoss |-> s[2], SoldComponents |-> s[3]] : s \in FieldShapes}

DevelopmentRecords ==
    {[Month |-> s[1], DevelopmentLoss |-> s[2], FinishedDevelopmentGates |-> s[3]] :
        s \in FieldShapes}

\* the values of datetime.now().month tried: a month with one bucket, a month
\* with two, and the last one, which has none
CurrentMonths == {1, 3, 12}

FetchOutcomes == {"ok", "http_error", "transport_error"}

(***************************************************************************)
(* The program                                                              *)
(***************************************************************************)
Init ==
    /\ airtable_pat \in {"unset", "empty", "token"}
    /\ pc = "get_data"
    /\ err = "none"
    /\ production_status = "pending"
    /\ development_status = "pending"
    /\ prodRecords = <<>>
    /\ devRecords = <<>>
    /\ monthly_data = <<>>
    /\ currentMonth = 0
    /\ summary = NoSummary

\* "if not airtable_pat": None and "" are both false
HasCredentials == airtable_pat = "token"

\* an exception leaves get_data or build_site: the frame is dropped
Raise(e) ==
    /\ pc' = "raised"
    /\ err' = e
    /\ prodRecords' = <<>>
    /\ devRecords' = <<>>
    /\ monthly_data' = <<>>

\* lines 20-35
UseMockData ==
    /\ pc = "get_data"
    /\ ~HasCredentials
    /\ pc' = "returned"
    /\ summary' = MockData
    /\ UNCHANGED <<airtable_pat, err, production_status, development_status,
                   prodRecords, devRecords, monthly_data, currentMonth>>

\* lines 38-71 and 97-98: requests.get raises on a transport error, the
\* status code is tested otherwise
FetchProduction ==
    /\ pc = "get_data"
    /\ HasCredentials
    /\ \E outcome \in FetchOutcomes :
        /\ production_status' = outcome
        /\ IF outcome = "transport_error"
           THEN Raise("ConnectionError")
           ELSE /\ pc' = IF outcome = "ok" THEN "scan_production" ELSE "production_failed"
                /\ UNCHANGED <<err, prodRecords, devRecords, monthly_data>>
    /\ UNCHANGED <<airtable_pat, development_status, currentMonth, summary>>

\* lines 74-95, one record of data["records"]
ScanProduction ==
    /\ pc = "scan_production"
    /\ Len(prodRecords) + Len(devRecords) < MaxRecords
    /\ \E record \in ProductionRecords :
        LET month == MonthOf(record)
            production_loss == CoerceLoss(Get(record.ProductionLoss, Number(0)))
            sold_components == CoerceCount(Get(record.SoldComponents, Number(0)))
        IN  /\ prodRecords' = Append(prodRecords, record)
            /\ monthly_data' = AddProduction(monthly_data, month, production_loss, sold_components)
    /\ UNCHANGED <<airtable_pat, pc, err, production_status, development_status,
                   devRecords, currentMonth, summary>>

\* lines 101-105 and 128-129, once the Production loop is over or was skipped
FetchDevelopment ==
    /\ pc \in {"scan_production", "production_failed"}
    /\ \E outcome \in FetchOutcomes :
        /\ development_status' = outcome
        /\ IF outcome = "transport_error"
           THEN Raise("ConnectionError")
           ELSE /\ pc' = IF outcome = "ok" THEN "scan_development" ELSE "development_failed"
                /\ UNCHANGED <<err, prodRecords, devRecords, monthly_data>>
    /\ UNCHANGED <<airtable_pat, production_status, currentMonth, summary>>

\* lines 107-127, one record of dataDevelopment["records"]
ScanDevelopment ==
    /\ pc = "scan_development"
    /\ Len(prodRecords) + Len(devRecords) < MaxRecords
    /\ \E record \in DevelopmentRecords :
        LET month == MonthOf(record)
            development_loss == CoerceLoss(Get(record.DevelopmentLoss, Number(0)))
            development_gates == CoerceCount(Get(record.FinishedDevelopmentGates, Number(0)))
        IN  /\ devRecords' = Append(devRecords, record)
            /\ monthly_data' = AddDevelopment(monthly_data, month, development_loss, development_gates)
    /\ UNCHANGED <<airtable_pat, pc, err, production_status, development_status,
                   prodRecords, currentMonth, summary>>

\* lines 131-176, once the Development loop is over or was skipped; get_data
\* returns finalData and its locals are gone
Aggregate ==
    /\ pc \in {"scan_development", "development_failed"}
    /\ \E m \in CurrentMonths :
        /\ currentMonth' = m
        /\ IF StartsWithRaises(monthly_data)
           THEN /\ Raise("AttributeError")
                /\ UNCHANGED summary
           ELSE /\ summary' = finalData(monthly_data, m)
                /\ pc' = "returned"
                /\ prodRecords' = <<>>
                /\ devRecords' = <<>>
                /\ monthly_data' = <<>>
                /\ UNCHANGED err
    /\ UNCHANGED <<airtable_pat, production_status, development_status>>

\* lines 186-224: reading a key the mapping lacks is a KeyError inside the
\* try, and so is any failure of the template or of the write; both are
\* logged and re-raised.  build_site is over either way and records is gone.
BuildSite ==
    /\ pc = "returned"
    /\ IF ~(RenderedKeys \subseteq DOMAIN summary)
       THEN /\ pc' = "raised"
            /\ err' = "KeyError"
       ELSE \E rendered \in BOOLEAN :
            /\ pc' = IF rendered THEN "built" ELSE "raised"
            /\ err' = IF rendered THEN "none" ELSE "RenderError"
    /\ summary' = NoSummary
    /\ currentMonth' = 0
    /\ UNCHANGED <<airtable_pat, production_status, development_status,
                   prodRecords, devRecords, monthly_data>>

Next ==
    \/ UseMockData
    \/ FetchProduction
    \/ ScanProduction
    \/ FetchDevelopment
    \/ ScanDevelopment
    \/ Aggregate
    \/ BuildSite

Spec == Init /\ [][Next]_vars

(***************************************************************************)
(* Vocabulary of the properties                                             *)
(***************************************************************************)
Counters == {"production_loss", "sold_components", "development_loss", "development_gates"}

\* the key of the grand total and of the current-month total of a counter
TotalKey(c) ==
    CASE c = "production_loss"   -> "totalProductionLoss"
      [] c = "sold_components"   -> "totalSoldComponents"
      [] c = "development_loss"  -> "totalDevelopmentLoss"
      [] c = "development_gates" -> "totalDevelopmentGates"

CurrentKey(c) ==
    CASE c = "production_loss"   -> "currentMonthProductionLoss"
      [] c = "sold_components"   -> "currentMonthSoldComponents"
      [] c = "development_loss"  -> "currentMonthDevelopmentLoss"
      [] c = "development_gates" -> "currentMonthDevelopmentGates"

\* the sum of counter c over the buckets of seq whose index is in idx
RECURSIVE SumAt(_, _, _)
SumAt(seq, idx, c) ==
    IF idx = {} THEN 0
    ELSE LET i == CHOOSE j \in idx : TRUE
         IN  seq[i][c] + SumAt(seq, idx \ {i}, c)

\* the canonical months a label starts with
MonthsOf(label) ==
    {n \in 1..Len(month_order) :
        label.kind = "str" /\ StartsWith(label.chars, month_order[n])}

IsCanonical(label) == MonthsOf(label) # {}

Returned == pc = "returned" /\ HasCredentials

\* the step in which get_data returns finalData
Returns == pc \in {"scan_development", "development_failed"} /\ pc' = "returned"

(***************************************************************************)
(* C1: in the summary get_data returns, each of the four grand totals is    *)
(* exactly the sum of that counter over the buckets of monthlyDataList, and *)
(* no bucket is in the list twice.                                          *)
(***************************************************************************)
C1_TotalsAreSumOfList ==
    Returned =>
        LET out == summary.monthlyDataList
        IN  /\ \A c \in Counters :
                summary[TotalKey(c)] = SumAt(out, 1..Len(out), c)
            /\ \A i, k \in 1..Len(out) : out[i].month = out[k].month => i = k

\* a summary of two buckets with values, where a total is the sum of both
C1_Witness ==
    /\ Returned
    /\ Len(summary.monthlyDataList) = 2
    /\ summary.monthlyDataList[1].production_loss > 0
    /\ summary.monthlyDataList[2].production_loss > 0
    /\ summary.totalProductionLoss =
          summary.monthlyDataList[1].production_loss
          + summary.monthlyDataList[2].production_loss

(***************************************************************************)
(* C2: monthlyDataList holds every bucket whose label starts with a         *)
(* canonical month name exactly once and no other bucket (none labelled     *)
(* "Unknown"), in the order January..December whatever the order of the     *)
(* records, buckets of one month side by side in the order of their         *)
(* creation, and all of them counted in the grand totals.                   *)
(***************************************************************************)
C2_ListIsCalendarOrdered ==
    [][Returns =>
        LET md  == monthly_data
            out == summary'.monthlyDataList
            \* the place in monthly_data of the i-th bucket of the list
            at(i) == CHOOSE j \in 1..Len(md) : md[j] = out[i]
            canonical == {j \in 1..Len(md) : IsCanonical(md[j].month)}
        IN  /\ \A i \in 1..Len(out) : \E j \in canonical : md[j] = out[i]
            /\ \A j \in canonical :
                  Cardinality({i \in 1..Len(out) : out[i] = md[j]}) = 1
            /\ \A i \in 1..Len(out) : out[i].month # StrLabel(Unknown)
            /\ \A i, k \in 1..Len(out) :
                  i < k =>
                    \A a \in MonthsOf(out[i].month), b \in MonthsOf(out[k].month) :
                        /\ a <= b
                        /\ a = b => at(i) < at(k)
            /\ \A c \in Counters : summary'[TotalKey(c)] = SumAt(md, canonical, c)
    ]_vars

\* January first, then the two March buckets, the year-suffixed one created
\* before the plain one
C2_Witness ==
    /\ Returned
    /\ Len(summary.monthlyDataList) = 3
    /\ summary.monthlyDataList[1].month = StrLabel(January)
    /\ summary.monthlyDataList[2].month = StrLabel(March2026)
    /\ summary.monthlyDataList[3].month = StrLabel(March)
    /\ summary.totalProductionLoss = Whole(29)

(***************************************************************************)
(* C6: each current-month total is the sum of that counter over exactly the *)
(* buckets whose label starts with the name of the current month; the       *)
(* buckets of other months and of no month add nothing.                     *)
(***************************************************************************)
C6_CurrentMonthTotals ==
    [][Returns =>
        LET md == monthly_data
            ofCurrent == {j \in 1..Len(md) : currentMonth' \in MonthsOf(md[j].month)}
        IN  \A c \in Counters : summary'[CurrentKey(c)] = SumAt(md, ofCurrent, c)
    ]_vars

\* March is current: both March buckets are counted and January is not
C6_Witness ==
    /\ Returned
    /\ currentMonth = 3
    /\ Len(summary.monthlyDataList) = 3
    /\ summary.monthlyDataList[1].production_loss = Whole(13)
    /\ summary.currentMonthProductionLoss = Whole(16)
    /\ summary.totalProductionLoss = Whole(29)

(***************************************************************************)
(* The records scanned so far                                               *)
(***************************************************************************)
ProductionCounters == {"production_loss", "sold_components"}

\* the raw value a record holds for counter c
RawOf(record, c) ==
    CASE c = "production_loss"   -> record.ProductionLoss
      [] c = "sold_components"   -> record.SoldComponents
      [] c = "development_loss"  -> record.DevelopmentLoss
      [] c = "development_gates" -> record.FinishedDevelopmentGates

\* the value the scan adds to counter c for that record
CoercedOf(record, c) ==
    IF c \in {"production_loss", "development_loss"}
    THEN CoerceLoss(Get(RawOf(record, c), Number(0)))
    ELSE CoerceCount(Get(RawOf(record, c), Number(0)))

\* the scanned records that feed counter c
RecordsFor(c) == IF c \in ProductionCounters THEN prodRecords ELSE devRecords

\* the sum of the coerced values of the records of seq labelled month
RECURSIVE SumCoerced(_, _, _)
SumCoerced(seq, month, c) ==
    IF seq = <<>> THEN 0
    ELSE (IF MonthOf(Head(seq)) = month THEN CoercedOf(Head(seq), c) ELSE 0)
         + SumCoerced(Tail(seq), month, c)

\* the labels of the records in the order they were scanned
ScannedLabels ==
    [i \in 1..(Len(prodRecords) + Len(devRecords)) |->
        IF i <= Len(prodRecords)
        THEN MonthOf(prodRecords[i])
        ELSE MonthOf(devRecords[i - Len(prodRecords)])]

\* the scan position at which a label was first referenced
FirstReference(month) ==
    CHOOSE i \in 1..Len(ScannedLabels) :
        /\ ScannedLabels[i] = month
        /\ \A j \in 1..(i - 1) : ScannedLabels[j] # month

\* the counter c of the bucket labelled month, zero when there is none
CounterOf(md, month, c) ==
    IF HasBucket(md, month)
    THEN (CHOOSE b \in {md[i] : i \in 1..Len(md)} : b.month = month)[c]
    ELSE 0

Malformed(x) == x.kind \in {"absent", "null", "text"}
\* a number or a numeric string whose value is an integer
WellFormedInteger(x) == x.kind \in {"number", "intstr"} /\ IsWhole(x.v)
Negative(x) == x.kind \in {"number", "intstr", "decstr"} /\ x.v < 0

\* a step that scans one Production record, one Development record
ScansProduction == Len(prodRecords') = Len(prodRecords) + 1
ScansDevelopment == Len(devRecords') = Len(devRecords) + 1

(***************************************************************************)
(* C10: during the two scans the bucket map only grows, a bucket being      *)
(* created by the first record that references its exact label; each        *)
(* counter is the sum of the coerced values of the records scanned so far   *)
(* with exactly that label; a Production record changes only                *)
(* production_loss and sold_components of its own bucket, a Development     *)
(* record only development_loss and development_gates of its own bucket.    *)
(***************************************************************************)
BucketsMatchScan ==
    /\ \A i, k \in 1..Len(monthly_data) :
          monthly_data[i].month = monthly_data[k].month => i = k
    /\ {monthly_data[i].month : i \in 1..Len(monthly_data)}
          = {ScannedLabels[i] : i \in 1..Len(ScannedLabels)}
    /\ \A i, k \in 1..Len(monthly_data) :
          i < k => FirstReference(monthly_data[i].month)
                     < FirstReference(monthly_data[k].month)
    /\ \A i \in 1..Len(monthly_data) : \A c \in Counters :
          monthly_data[i][c] = SumCoerced(RecordsFor(c), monthly_data[i].month, c)

C10_BucketsGrowAdditively ==
    [][/\ BucketsMatchScan'
       /\ (ScansProduction \/ ScansDevelopment) =>
            LET record == IF ScansProduction
                          THEN prodRecords'[Len(prodRecords')]
                          ELSE devRecords'[Len(devRecords')]
                own == IF ScansProduction THEN ProductionCounters
                       ELSE Counters \ ProductionCounters
            IN  /\ Len(monthly_data') >= Len(monthly_data)
                /\ \A i \in 1..Len(monthly_data) : \A c \in Counters :
                      /\ monthly_data'[i].month = monthly_data[i].month
                      /\ monthly_data'[i][c] # monthly_data[i][c] =>
                            monthly_data[i].month = MonthOf(record) /\ c \in own
                /\ \A i \in (Len(monthly_data) + 1)..Len(monthly_data') :
                      /\ monthly_data'[i].month = MonthOf(record)
                      /\ \A c \in Counters \ own : monthly_data'[i][c] = 0
    ]_vars

\* two Production records and a Development record under one label, summed
\* into its bucket, beside a bucket that only Production fed
C10_Witness ==
    /\ pc = "scan_development"
    /\ Len(prodRecords) = 2
    /\ Len(devRecords) = 1
    /\ Len(monthly_data) = 2
    /\ MonthOf(prodRecords[1]) = MonthOf(devRecords[1])
    /\ monthly_data[1].production_loss = Whole(13)
    /\ monthly_data[1].development_gates = Whole(2)
    /\ monthly_data[2].production_loss = Whole(13)
    /\ monthly_data[2].development_gates = 0

(***************************************************************************)
(* C3: a record whose numeric field is absent, null or non-numeric is       *)
(* scanned without an error, adds zero to the counter of that field, and    *)
(* its other field, when well formed, is still added.                       *)
(***************************************************************************)
C3_MalformedFieldAddsZero ==
    [][(ScansProduction \/ ScansDevelopment) =>
        LET production == ScansProduction
            record == IF production
                      THEN prodRecords'[Len(prodRecords')]
                      ELSE devRecords'[Len(devRecords')]
            own == IF production THEN ProductionCounters
                   ELSE Counters \ ProductionCounters
            before(c) == CounterOf(monthly_data, MonthOf(record), c)
            after(c)  == CounterOf(monthly_data', MonthOf(record), c)
        IN  \A c \in own :
              Malformed(RawOf(record, c)) =>
                /\ pc' = pc
                /\ err' = "none"
                /\ HasBucket(monthly_data', MonthOf(record))
                /\ after(c) = before(c)
                /\ \A o \in own \ {c} :
                      WellFormedInteger(RawOf(record, o)) =>
                          after(o) = before(o) + RawOf(record, o).v
    ]_vars

\* a record with null for Development Loss and "2" for the gates has been
\* scanned into a bucket that already held a loss
C3_Witness ==
    /\ pc = "scan_development"
    /\ Len(devRecords) = 2
    /\ devRecords[2].DevelopmentLoss = Null
    /\ devRecords[2].FinishedDevelopmentGates = IntStr(20)
    /\ Len(monthly_data) = 1
    /\ monthly_data[1].development_loss = Whole(3)
    /\ monthly_data[1].development_gates = Whole(4)

(***************************************************************************)
(* C7, as the claim states it: in every state of the aggregation and in the *)
(* returned summary each counter of each bucket is a non-negative integer,  *)
(* also when the records hold negative or non-integral numbers.             *)
(***************************************************************************)
C7_CountersNonNegativeIntegers ==
    /\ \A i \in 1..Len(monthly_data) : \A c \in Counters :
          IsWhole(monthly_data[i][c]) /\ monthly_data[i][c] >= 0
    /\ Returned =>
          \A i \in 1..Len(summary.monthlyDataList) : \A c \in Counters :
              /\ IsWhole(summary.monthlyDataList[i][c])
              /\ summary.monthlyDataList[i][c] >= 0

(***************************************************************************)
(* C7, amended: each counter of each bucket is an integer in every state of *)
(* the aggregation and in the returned summary, whatever the records hold;  *)
(* it is negative only when a record with that label held a negative number *)
(* in that field, negative numbers being added as they are.                 *)
(***************************************************************************)
C7_CountersAreIntegers ==
    /\ \A i \in 1..Len(monthly_data) : \A c \in Counters :
          /\ IsWhole(monthly_data[i][c])
          /\ monthly_data[i][c] < 0 =>
                \E k \in 1..Len(RecordsFor(c)) :
                    /\ MonthOf(RecordsFor(c)[k]) = monthly_data[i].month
                    /\ Negative(RawOf(RecordsFor(c)[k], c))
    /\ Returned =>
          \A i \in 1..Len(summary.monthlyDataList) : \A c \in Counters :
              IsWhole(summary.monthlyDataList[i][c])

\* "12.6" and -1.5 were scanned for one label: the loss is 13 - 2 = 11; the
\* count -1.7 was scanned for it as well and the count is negative
C7_Witness ==
    /\ pc = "scan_production"
    /\ Len(prodRecords) = 3
    /\ \E k \in 1..3 : prodRecords[k].ProductionLoss = DecStr(126)
    /\ \E k \in 1..3 : prodRecords[k].ProductionLoss = Number(-15)
    /\ \E k \in 1..3 : prodRecords[k].SoldComponents = Number(-17)
    /\ Len(monthly_data) = 1
    /\ monthly_data[1].production_loss = Whole(11)
    /\ monthly_data[1].sold_components = Whole(-1)

(***************************************************************************)
(* C9: a Production record and a Development record with the same exact    *)
(* label share one bucket that holds the four coerced values, a loss        *)
(* rounded to the nearest integer and a count taken as an integer from a    *)
(* number or a numeric string: {January, "12.6", 5} and {January, 3, "2"}   *)
(* give the one bucket January with 13, 5, 3 and 2, and grand totals equal  *)
(* to these four values.                                                    *)
(***************************************************************************)
ExampleProduction ==
    [Month |-> StrLabel(January), ProductionLoss |-> DecStr(126),
     SoldComponents |-> Number(50)]

ExampleDevelopment ==
    [Month |-> StrLabel(January), DevelopmentLoss |-> Number(30),
     FinishedDevelopmentGates |-> IntStr(20)]

ExampleBucket ==
    [getEmptyDict(StrLabel(January)) EXCEPT
        !.production_loss = Whole(13), !.sold_components = Whole(5),
        !.development_loss = Whole(3), !.development_gates = Whole(2)]

C9_SharedBucketExample ==
    [][/\ \A i, k \in 1..Len(monthly_data') :
            monthly_data'[i].month = monthly_data'[k].month => i = k
       /\ (prodRecords = <<ExampleProduction>> /\ devRecords = <<ExampleDevelopment>>) =>
            /\ monthly_data = <<ExampleBucket>>
            /\ Returns =>
                /\ summary'.monthlyDataList = <<ExampleBucket>>
                /\ summary'.totalProductionLoss = Whole(13)
                /\ summary'.totalSoldComponents = Whole(5)
                /\ summary'.totalDevelopmentLoss = Whole(3)
                /\ summary'.totalDevelopmentGates = Whole(2)
    ]_vars

\* the two records of the example have been scanned
C9_Witness ==
    /\ pc = "scan_development"
    /\ prodRecords = <<ExampleProduction>>
    /\ devRecords = <<ExampleDevelopment>>
    /\ Len(monthly_data) = 1
    /\ monthly_data[1].production_loss = Whole(13)

(***************************************************************************)
(* C4, as the claim states it: with credentials, a fetch that fails at the  *)
(* network level, by a transport error or by a response that is not 200,    *)
(* is caught and counts as no records: the aggregation goes on, for         *)
(* whichever fetch fails and for both.                                      *)
(***************************************************************************)
FetchFailures == {"http_error", "transport_error"}

C4_FetchFailureIsContained ==
    (HasCredentials
        /\ (production_status \in FetchFailures \/ development_status \in FetchFailures))
    => /\ err # "ConnectionError"
       /\ pc \in {"production_failed", "scan_development", "development_failed",
                  "returned", "built", "raised"}
       /\ pc = "raised" => development_status # "pending"

(***************************************************************************)
(* C5, as the claim states it: without credentials get_data fetches         *)
(* nothing and returns a summary with an empty bucket sequence, the four    *)
(* grand totals and the four current-month totals all zero, and build_site  *)
(* renders from it instead of failing on it.                                *)
(***************************************************************************)
C5_NoCredentialsSummaryRenders ==
    ~HasCredentials =>
        /\ production_status = "pending"
        /\ development_status = "pending"
        /\ pc = "returned" =>
            /\ summary.monthlyDataList = <<>>
            /\ \A c \in Counters :
                /\ TotalKey(c) \in DOMAIN summary
                /\ summary[TotalKey(c)] = 0
                /\ CurrentKey(c) \in DOMAIN summary
                /\ summary[CurrentKey(c)] = 0
        /\ err # "KeyError"

(***************************************************************************)
(* C8, as the claim states it, for the runs in which both fetches were      *)
(* answered: with credentials get_data returns a summary without raising    *)
(* whatever the records hold, a null Month included; only the rendering of  *)
(* build_site lets an exception through.                                    *)
(***************************************************************************)
C8_AggregationNeverThrows ==
    (HasCredentials
        /\ production_status # "transport_error"
        /\ development_status # "transport_error")
    => (pc = "raised" => err = "RenderError")

====
